---- MODULE Spec2Model ----
(***************************************************************************)
(* A model of the command-line to-do list of src/main.go.                  *)
(*                                                                         *)
(* One invocation of the program loads tasks.txt, dispatches on os.Args,   *)
(* and for add/delete/done/clear overwrites tasks.txt.  Spec runs          *)
(* invocations one after the other; SpecIds does the same while recording  *)
(* which identifiers have been removed from the store; SpecConc lets two   *)
(* processes overlap, with no lock on the file.                             *)
(*                                                                         *)
(* Environment assumption: reading and writing tasks.txt succeed, except   *)
(* that the file may not exist or may hold text that is not a JSON array   *)
(* of tasks.  In SpecConc os.WriteFile is two steps, the open that         *)
(* truncates the file and the write at offset 0, and os.ReadFile is two,   *)
(* the read that returns the content and the read that finds the end.      *)
(***************************************************************************)
EXTENDS Integers, Sequences, FiniteSets, TLC

VARIABLES
    file,       \* tasks.txt: absent, unparseable, or a JSON array of objects
    run,        \* the last finished sequential invocation, as the user saw it
    retired,    \* history: identifiers of tasks removed from the store so far
    proc,       \* the overlapping invocations: position, arguments, locals
    started,    \* how many overlapping invocations have been started
    lastSave    \* history: who overwrote tasks.txt last, and with what

vars == <<file, run, retired, proc, started, lastSave>>

\* Largest identifier the model lets add assign.
MaxID == 3

\* Number of invocations the overlapping specification starts.
MaxRuns == 4

\* ------------------------------------------------------------------------
\* Values

\* The zero time.Time, January 1, year 1, 00:00:00 UTC.
ZeroTime == [y |-> 1, m |-> 1, d |-> 1]

\* Task of main.go.  Title is a sequence of bytes/characters: "xFF" stands
\* for a byte that is not valid UTF-8, "uFFFD" for the rune U+FFFD.
Task(id, title, done, deadline) ==
    [ID |-> id, Title |-> title, Done |-> done, Deadline |-> deadline]

\* time.Time.IsZero
IsZero(t) == t = ZeroTime

\* The content of tasks.txt: kind says whether the file is missing, holds a
\* JSON array of tasks (recs) or holds bytes that do not parse; len is its
\* length in bytes.
Content(kind, recs, len) == [kind |-> kind, recs |-> recs, len |-> len]

FileAbsent == Content("absent", <<>>, 0)

\* A file with a byte that is no JSON.
FileCorrupt == Content("corrupt", <<>>, 1)

\* ------------------------------------------------------------------------
\* encoding/json as main.go uses it

\* A string is written with each invalid UTF-8 byte replaced by the escape
\* of U+FFFD, with <, > and & (HTML escaping is on), control characters and
\* U+2028, U+2029 as \u escapes, with the quote, the backslash and the
\* newline as two-character escapes, and every other character as it is.
\* "nl" stands for the newline, "x01" for the control character 0x01.
jsonEncodeChar(c) ==
    CASE c = "xFF" -> "\\ufffd"
      [] c = "<" -> "\\u003c"
      [] c = ">" -> "\\u003e"
      [] c = "&" -> "\\u0026"
      [] c = "\"" -> "\\\""
      [] c = "\\" -> "\\\\"
      [] c = "nl" -> "\\n"
      [] c = "x01" -> "\\u0001"
      [] c = "u2028" -> "\\u2028"
      [] c = "u2029" -> "\\u2029"
      [] OTHER -> c

jsonDecodeChar(e) ==
    CASE e = "\\ufffd" -> "uFFFD"
      [] e = "\\u003c" -> "<"
      [] e = "\\u003e" -> ">"
      [] e = "\\u0026" -> "&"
      [] e = "\\\"" -> "\""
      [] e = "\\\\" -> "\\"
      [] e = "\\n" -> "nl"
      [] e = "\\u0001" -> "x01"
      [] e = "\\u2028" -> "u2028"
      [] e = "\\u2029" -> "u2029"
      [] OTHER -> e

\* The bytes an encoded character takes in the file: six for a \u escape,
\* two for the other escapes, three for U+FFFD written as it is, else one.
encodedLen(e) ==
    IF e \in {"\\ufffd", "\\u003c", "\\u003e", "\\u0026", "\\u0001", "\\u2028",
              "\\u2029"} THEN 6
    ELSE IF e \in {"\\\"", "\\\\", "\\n"} THEN 2
    ELSE IF e = "uFFFD" THEN 3
    ELSE 1

jsonEncodeString(s) == [i \in 1..Len(s) |-> jsonEncodeChar(s[i])]

jsonDecodeString(s) == [i \in 1..Len(s) |-> jsonDecodeChar(s[i])]

\* time.Time.MarshalJSON: RFC 3339, here always midnight UTC.  The omitempty
\* tag does not apply to a struct, so the zero time is written too.
timeMarshalJSON(t) == [y |-> t.y, m |-> t.m, d |-> t.d, rest |-> "T00:00:00Z"]

timeUnmarshalJSON(j) == [y |-> j.y, m |-> j.m, d |-> j.d]

marshalTask(t) ==
    [id |-> t.ID, title |-> jsonEncodeString(t.Title), done |-> t.Done,
     deadline |-> timeMarshalJSON(t.Deadline)]

unmarshalTask(o) ==
    Task(o.id, jsonDecodeString(o.title), o.done, timeUnmarshalJSON(o.deadline))

\* json.MarshalIndent(tasks, "", "  ")
marshalIndent(tasks) == [i \in 1..Len(tasks) |-> marshalTask(tasks[i])]

\* json.Unmarshal(file, &tasks)
unmarshal(recs) == [i \in 1..Len(recs) |-> unmarshalTask(recs[i])]

RECURSIVE decimalLen(_)
decimalLen(n) == IF n < 10 THEN 1 ELSE 1 + decimalLen(n \div 10)

RECURSIVE stringLen(_)
stringLen(s) == IF s = <<>> THEN 0 ELSE encodedLen(Head(s)) + stringLen(Tail(s))

\* The bytes of one object as MarshalIndent lays it out, two spaces a level:
\* the lines of the braces (4 and 3), of "id" (12 and the digits), of
\* "title" (17 and the string), of "done" (14 and true or false) and of
\* "deadline" (39).
objectLen(o) ==
    4 + (12 + decimalLen(o.id)) + (17 + stringLen(o.title))
      + (14 + (IF o.done THEN 4 ELSE 5)) + 39 + 3

RECURSIVE objectsLen(_)
objectsLen(recs) ==
    IF recs = <<>> THEN 0 ELSE objectLen(Head(recs)) + objectsLen(Tail(recs))

\* The bytes of the array: "[]" when empty, else "[", a newline, the objects
\* separated by a comma and a newline, a newline and "]".
arrayLen(recs) ==
    IF recs = <<>> THEN 2
    ELSE 2 + objectsLen(recs) + 2 * (Len(recs) - 1) + 2

\* ------------------------------------------------------------------------
\* Store

\* The identifiers written in the file.
FileIds(f) == {f.recs[i].id : i \in 1..Len(f.recs)}

\* loadTasks without its os.IsNotExist branch: a missing file is an error.
loadTasksStrict(f) ==
    IF f.kind = "json" THEN [err |-> FALSE, tasks |-> unmarshal(f.recs)]
    ELSE [err |-> TRUE, tasks |-> <<>>]

\* loadTasks: a missing file is the empty collection, an unparseable one an
\* error.
loadTasks(f) ==
    IF f.kind = "absent" THEN [err |-> FALSE, tasks |-> <<>>]
    ELSE IF f.kind = "corrupt" THEN [err |-> TRUE, tasks |-> <<>>]
    ELSE [err |-> FALSE, tasks |-> unmarshal(f.recs)]

\* os.WriteFile opens the file with O_CREATE and O_TRUNC: it exists and is
\* empty, which does not parse.
openTrunc == Content("corrupt", <<>>, 0)

\* os.WriteFile then writes data at offset 0.  Bytes the file holds beyond
\* the data stay, and an array followed by more bytes does not parse.
writeAt0(f, data) ==
    IF f.len <= data.len THEN data ELSE Content("corrupt", <<>>, f.len)

\* What saveTasks writes: the serialized collection.
marshalled(tasks) ==
    Content("json", marshalIndent(tasks), arrayLen(marshalIndent(tasks)))

\* saveTasks, with nothing between its open and its write: the whole file
\* is replaced by the serialized collection.
saveTasks(tasks) == writeAt0(openTrunc, marshalled(tasks))

\* ------------------------------------------------------------------------
\* time.Parse("2006-01-02", s) and strconv.Atoi(s)

isLeap(y) == (y % 4 = 0 /\ y % 100 # 0) \/ y % 400 = 0

daysIn(m, y) ==
    IF m = 2 THEN (IF isLeap(y) THEN 29 ELSE 28)
    ELSE IF m \in {4, 6, 9, 11} THEN 30 ELSE 31

\* A deadline argument is either of the shape NNNN-NN-NN, with its three
\* numbers, or some other string.
timeParse(s) ==
    IF /\ s.shape = "ymd"
       /\ s.y \in 0..9999
       /\ s.m \in 1..12
       /\ s.d \in 1..daysIn(s.m, s.y)
    THEN [err |-> FALSE, t |-> [y |-> s.y, m |-> s.m, d |-> s.d]]
    ELSE [err |-> TRUE, t |-> ZeroTime]

Digits == <<"0", "1", "2", "3", "4", "5", "6", "7", "8", "9">>

isDigit(c) == \E i \in 1..Len(Digits) : Digits[i] = c

digitVal(c) == (CHOOSE i \in 1..Len(Digits) : Digits[i] = c) - 1

RECURSIVE digitsVal(_)
digitsVal(s) ==
    IF Len(s) = 0 THEN 0
    ELSE 10 * digitsVal(SubSeq(s, 1, Len(s) - 1)) + digitVal(s[Len(s)])

\* strconv.Atoi: an optional sign, then one or more decimal digits.
atoi(s) ==
    LET signed == Len(s) > 0 /\ s[1] \in {"+", "-"}
        body == IF signed THEN Tail(s) ELSE s
    IN  IF Len(body) = 0 \/ \E i \in 1..Len(body) : ~isDigit(body[i])
        THEN [err |-> TRUE, n |-> 0]
        ELSE [err |-> FALSE,
              n |-> IF signed /\ s[1] = "-" THEN 0 - digitsVal(body)
                    ELSE digitsVal(body)]

\* ------------------------------------------------------------------------
\* Task operations

\* The loop of addTask that finds the largest identifier, from position i on.
RECURSIVE maxFrom(_, _, _)
maxFrom(tasks, i, maxID) ==
    IF i > Len(tasks) THEN maxID
    ELSE maxFrom(tasks, i + 1, IF tasks[i].ID > maxID THEN tasks[i].ID ELSE maxID)

\* The next identifier taken from the number of tasks instead of the largest
\* identifier.
nextIDByCount(tasks) == Len(tasks) + 1

\* The next identifier taken as the smallest one no task has.
nextIDFirstFree(tasks) ==
    CHOOSE n \in 1..(Len(tasks) + 1) :
        /\ \A i \in 1..Len(tasks) : tasks[i].ID # n
        /\ \A k \in 1..(n - 1) : \E i \in 1..Len(tasks) : tasks[i].ID = k

nextID(tasks) ==
    IF Len(tasks) = 0 THEN 1 ELSE maxFrom(tasks, 2, tasks[1].ID) + 1

\* addTask putting the new task first instead of last.
addTaskPrepend(tasks, title, deadline) ==
    LET newID == nextID(tasks)
        parsed == timeParse(deadline)
        dl == IF deadline.shape # "empty" /\ ~parsed.err THEN parsed.t ELSE ZeroTime
    IN  [tasks |-> <<Task(newID, title, FALSE, dl)>> \o tasks, newID |-> newID]

\* addTask: the deadline is kept only when it is a non-empty string that
\* parses; the new task is appended.
addTask(tasks, title, deadline) ==
    LET newID == nextID(tasks)
        parsed == timeParse(deadline)
        dl == IF deadline.shape # "empty" /\ ~parsed.err THEN parsed.t ELSE ZeroTime
    IN  [tasks |-> Append(tasks, Task(newID, title, FALSE, dl)), newID |-> newID]

\* The position of the first task with identifier id, 0 when there is none.
firstIndex(tasks, id) ==
    IF \E i \in 1..Len(tasks) : tasks[i].ID = id
    THEN CHOOSE i \in 1..Len(tasks) :
            /\ tasks[i].ID = id
            /\ \A j \in 1..(i - 1) : tasks[j].ID # id
    ELSE 0

\* deleteTask returning tasks[:i], which drops the tasks after the match too.
deleteTaskTruncate(tasks, id) ==
    LET i == firstIndex(tasks, id)
    IN  IF i = 0 THEN [tasks |-> tasks, found |-> FALSE]
        ELSE [tasks |-> SubSeq(tasks, 1, i - 1), found |-> TRUE]

\* deleteTask: append(tasks[:i], tasks[i+1:]...) at the first match.
deleteTask(tasks, id) ==
    LET i == firstIndex(tasks, id)
    IN  IF i = 0 THEN [tasks |-> tasks, found |-> FALSE]
        ELSE [tasks |-> SubSeq(tasks, 1, i - 1) \o SubSeq(tasks, i + 1, Len(tasks)),
              found |-> TRUE]

\* markDone reporting found whether or not a task matched.
markDoneAlways(tasks, id) ==
    LET i == firstIndex(tasks, id)
    IN  IF i = 0 THEN [tasks |-> tasks, found |-> TRUE]
        ELSE [tasks |-> [tasks EXCEPT ![i].Done = TRUE], found |-> TRUE]

\* markDone flipping the flag instead of setting it.
markDoneToggle(tasks, id) ==
    LET i == firstIndex(tasks, id)
    IN  IF i = 0 THEN [tasks |-> tasks, found |-> FALSE]
        ELSE [tasks |-> [tasks EXCEPT ![i].Done = ~tasks[i].Done], found |-> TRUE]

\* markDone: tasks[i].Done = true at the first match.
markDone(tasks, id) ==
    LET i == firstIndex(tasks, id)
    IN  IF i = 0 THEN [tasks |-> tasks, found |-> FALSE]
        ELSE [tasks |-> [tasks EXCEPT ![i].Done = TRUE], found |-> TRUE]

\* clearTasks
clearTasks == <<>>

\* ------------------------------------------------------------------------
\* What an invocation prints

NoDeadline == [shown |-> FALSE, y |-> 0, m |-> 0, d |-> 0]

\* One line of list: "#id: title [status] (Deadline: YYYY-MM-DD)".
listLine(t) ==
    [id |-> t.ID, title |-> t.Title,
     status |-> IF t.Done THEN "Done" ELSE "Not Done",
     dl |-> IF ~IsZero(t.Deadline)
            THEN [shown |-> TRUE, y |-> t.Deadline.y, m |-> t.Deadline.m,
                  d |-> t.Deadline.d]
            ELSE NoDeadline]

Out(kind, usage, id, lines) ==
    [kind |-> kind, usage |-> usage, id |-> id, lines |-> lines]

\* ------------------------------------------------------------------------
\* main, after the load: the argument check and the switch on the command.
\* a.n is len(os.Args); save says whether control reaches saveTasks.

Result(tasks, out, exit, save) ==
    [tasks |-> tasks, out |-> out, exit |-> exit, save |-> save]

caseAdd(tasks, a) ==
    IF a.n < 3
    THEN Result(tasks, Out("Error: Task title is required", TRUE, 0, <<>>), 1, FALSE)
    ELSE LET r == addTask(tasks, a.title,
                          IF a.n > 3 THEN a.deadline ELSE [shape |-> "empty"])
         IN  Result(r.tasks, Out("Added task", FALSE, r.newID, <<>>), 0, TRUE)

caseList(tasks, a) ==
    IF Len(tasks) = 0
    THEN Result(tasks, Out("No tasks found", FALSE, 0, <<>>), 0, FALSE)
    ELSE Result(tasks,
                Out("Tasks:", FALSE, 0, [i \in 1..Len(tasks) |-> listLine(tasks[i])]),
                0, FALSE)

caseDelete(tasks, a) ==
    IF a.n < 3
    THEN Result(tasks, Out("Error: Task ID is required", TRUE, 0, <<>>), 1, FALSE)
    ELSE LET id == atoi(a.idarg)
             r == deleteTask(tasks, id.n)
         IN  IF id.err
             THEN Result(tasks, Out("Error: ID must be a number", FALSE, 0, <<>>), 1, FALSE)
             ELSE IF ~r.found
             THEN Result(r.tasks, Out("Error: Task not found", FALSE, id.n, <<>>), 1, FALSE)
             ELSE Result(r.tasks, Out("Deleted task", FALSE, id.n, <<>>), 0, TRUE)

caseDone(tasks, a) ==
    IF a.n < 3
    THEN Result(tasks, Out("Error: Task ID is required", TRUE, 0, <<>>), 1, FALSE)
    ELSE LET id == atoi(a.idarg)
             r == markDone(tasks, id.n)
         IN  IF id.err
             THEN Result(tasks, Out("Error: ID must be a number", FALSE, 0, <<>>), 1, FALSE)
             ELSE IF ~r.found
             THEN Result(r.tasks, Out("Error: Task not found", FALSE, id.n, <<>>), 1, FALSE)
             ELSE Result(r.tasks, Out("Marked task as done", FALSE, id.n, <<>>), 0, TRUE)

\* clear left out of the commands that save.
caseClearNoSave(tasks, a) ==
    Result(clearTasks, Out("All tasks cleared!", FALSE, 0, <<>>), 0, FALSE)

caseClear(tasks, a) ==
    Result(clearTasks, Out("All tasks cleared!", FALSE, 0, <<>>), 0, TRUE)

caseDefault(tasks, a) ==
    Result(tasks, Out("", TRUE, 0, <<>>), 1, FALSE)

dispatch(tasks, a) ==
    IF a.n < 2 THEN Result(tasks, Out("", TRUE, 0, <<>>), 1, FALSE)
    ELSE CASE a.cmd = "add" -> caseAdd(tasks, a)
           [] a.cmd = "list" -> caseList(tasks, a)
           [] a.cmd = "delete" -> caseDelete(tasks, a)
           [] a.cmd = "done" -> caseDone(tasks, a)
           [] a.cmd = "clear" -> caseClear(tasks, a)
           [] OTHER -> caseDefault(tasks, a)

\* main: load, dispatch, save.  The result is everything the invocation
\* leaves behind: the file, what it printed, its exit status, and the
\* collection it loaded and the one it held in memory when it exited.
main(f, a) ==
    LET ld == loadTasks(f)
        r == dispatch(ld.tasks, a)
    IN  IF ld.err
        THEN [file |-> f, args |-> a, loadErr |-> TRUE, loaded |-> <<>>,
              tasks |-> <<>>, out |-> Out("Error loading tasks", FALSE, 0, <<>>),
              exit |-> 1, before |-> f]
        ELSE [file |-> IF r.save THEN saveTasks(r.tasks) ELSE f,
              args |-> a, loadErr |-> FALSE, loaded |-> ld.tasks,
              tasks |-> r.tasks, out |-> r.out, exit |-> r.exit, before |-> f]

\* ------------------------------------------------------------------------
\* Command lines

EmptyString == [shape |-> "empty", y |-> 0, m |-> 0, d |-> 0]

Date(y, m, d) == [shape |-> "ymd", y |-> y, m |-> m, d |-> d]

\* os.Args: n = len(os.Args), then the arguments the command reads.
Args(n, cmd, title, deadline, idarg) ==
    [n |-> n, cmd |-> cmd, title |-> title, deadline |-> deadline, idarg |-> idarg]

TitleArgs == {<<"a", "<", ">", "&", "\"", "\\", "nl", "x01", "u2028">>, <<"xFF">>}

DeadlineArgs ==
    {Date(2024, 3, 15), Date(2024, 2, 30), Date(1, 1, 1),
     [shape |-> "other", y |-> 0, m |-> 0, d |-> 0]}

IdArgs ==
    {<<Digits[i + 1]>> : i \in 0..MaxID}
        \cup {<<"+", "2">>, <<"-", "1">>, <<"0", "1">>, <<"x">>, <<"1", "x">>, <<>>}

\* add with no title, with a title, and with a title and a deadline.
AddArgs ==
    {Args(2, "add", <<>>, EmptyString, <<>>)}
        \cup {Args(3, "add", t, EmptyString, <<>>) : t \in TitleArgs}
        \cup {Args(4, "add", <<"a", "<", ">", "&", "\"", "\\", "nl", "x01", "u2028">>, d, <<>>) : d \in DeadlineArgs}

IdCmdArgs(cmd) ==
    {Args(2, cmd, <<>>, EmptyString, <<>>)}
        \cup {Args(3, cmd, <<>>, EmptyString, s) : s \in IdArgs}

OtherArgs ==
    {Args(1, "", <<>>, EmptyString, <<>>), Args(2, "help", <<>>, EmptyString, <<>>)}

\* ------------------------------------------------------------------------
\* Invocations one after the other

NoRun ==
    [file |-> FileAbsent, args |-> Args(0, "", <<>>, EmptyString, <<>>),
     loadErr |-> FALSE, loaded |-> <<>>, tasks |-> <<>>,
     out |-> Out("", FALSE, 0, <<>>), exit |-> 0, before |-> FileAbsent]

NoProc ==
    [pc |-> "idle", args |-> Args(0, "", <<>>, EmptyString, <<>>),
     read |-> FileAbsent, loaded |-> <<>>, tasks |-> <<>>,
     out |-> Out("", FALSE, 0, <<>>), exit |-> 0]

Procs == {1, 2}

Init ==
    /\ file \in {FileAbsent, saveTasks(<<>>), FileCorrupt}
    /\ run = NoRun
    /\ retired = {}
    /\ proc = [p \in Procs |-> NoProc]
    /\ started = 0
    /\ lastSave = [by |-> 0, tasks |-> <<>>]

\* The model stops adding when the next identifier would pass MaxID.
CanAdd(f) == nextID(loadTasks(f).tasks) <= MaxID

Invoke(a) ==
    /\ run' = main(file, a)
    /\ file' = run'.file
    /\ UNCHANGED <<retired, proc, started, lastSave>>

Add == \E a \in AddArgs : CanAdd(file) /\ Invoke(a)

List == Invoke(Args(2, "list", <<>>, EmptyString, <<>>))

Delete == \E a \in IdCmdArgs("delete") : Invoke(a)

Done == \E a \in IdCmdArgs("done") : Invoke(a)

Clear == Invoke(Args(2, "clear", <<>>, EmptyString, <<>>))

Other == \E a \in OtherArgs : Invoke(a)

Next == Add \/ List \/ Delete \/ Done \/ Clear \/ Other

Spec == Init /\ [][Next]_vars

\* ------------------------------------------------------------------------
\* Vocabulary of the properties

Ids(tasks) == {tasks[i].ID : i \in 1..Len(tasks)}

Max(S) == CHOOSE x \in S : \A y \in S : y <= x

\* The collection a following invocation would load from tasks.txt.
Stored == unmarshal(file.recs)

\* The last invocation was given this command.
Ran(cmd) == run.args.n >= 2 /\ run.args.cmd = cmd

Succeeded(cmd) == Ran(cmd) /\ run.exit = 0

\* The last invocation was given an identifier argument that is a number.
IdGiven == run.args.n >= 3 /\ ~atoi(run.args.idarg).err

GivenId == atoi(run.args.idarg).n

\* The last invocation was given the identifier of a task it loaded.
IdExists == IdGiven /\ GivenId \in Ids(run.loaded)

ErrorKinds ==
    {"Error loading tasks", "Error: Task ID is required",
     "Error: ID must be a number", "Error: Task not found"}

\* tasks with the tasks of identifier id left out, order kept.
RECURSIVE Without(_, _)
Without(tasks, id) ==
    IF tasks = <<>> THEN <<>>
    ELSE IF Head(tasks).ID = id THEN Without(Tail(tasks), id)
    ELSE <<Head(tasks)>> \o Without(Tail(tasks), id)

\* ------------------------------------------------------------------------
\* C1: starting from an empty or missing store, after any sequence of
\* invocations no two tasks of the persisted collection share an identifier.
C1_UniqueIds ==
    \A i, j \in 1..Len(file.recs) : i # j => file.recs[i].id # file.recs[j].id

\* An add into a store whose first task has been deleted before.
C1_Witness ==
    /\ Succeeded("add")
    /\ Len(file.recs) >= 2
    /\ file.recs[1].id # 1

\* After an add: the identifier, and the stored collection.
C2_AddState ==
    Succeeded("add") =>
        /\ run.out.kind = "Added task"
        /\ run.out.id = (IF run.loaded = <<>> THEN 1 ELSE Max(Ids(run.loaded)) + 1)
        /\ \A i \in 1..Len(run.loaded) : run.loaded[i].ID < run.out.id
        /\ file.kind = "json"
        /\ Len(Stored) = Len(run.loaded) + 1
        /\ \A i \in 1..Len(run.loaded) : Stored[i] = run.loaded[i]
        /\ Stored[Len(Stored)].ID = run.out.id
        /\ Stored[Len(Stored)].Done = FALSE

\* An add that follows an add.
C2_AddStep ==
    (Succeeded("add") /\ run'.args.cmd = "add" /\ run'.exit = 0)
        => run'.out.id > run.out.id

\* C2: add assigns (largest identifier in the collection) + 1, or 1 to an
\* empty collection, and appends the task: the tasks before it are kept as
\* they were and every one of them has a smaller identifier; an add that
\* follows an add assigns a larger identifier.
C2_AddAssignsNext == []C2_AddState /\ [][C2_AddStep]_vars

\* An add into a store with a gap below its largest identifier.
C2_Witness ==
    /\ Succeeded("add")
    /\ Len(run.loaded) >= 1
    /\ run.out.id > Len(run.loaded) + 1

\* After a delete of an identifier that a loaded task had.
C3_DeleteState ==
    (Ran("delete") /\ IdExists) =>
        /\ run.exit = 0
        /\ run.out.kind = "Deleted task"
        /\ run.out.id = GivenId
        /\ file.kind = "json"
        /\ GivenId \notin FileIds(file)
        /\ Stored = Without(run.loaded, GivenId)
        /\ Len(Stored) = Len(run.loaded) - 1

\* A list that follows such a delete.
C3_ListStep ==
    (Ran("delete") /\ IdExists /\ run'.args.cmd = "list")
        => \A i \in 1..Len(run'.out.lines) : run'.out.lines[i].id # GivenId

\* C3: delete of an existing identifier succeeds and persists the prior
\* collection without that task, the others unchanged and in their order; a
\* list that follows does not show the identifier.
C3_DeleteRemoves == []C3_DeleteState /\ [][C3_ListStep]_vars

\* The middle one of three tasks is deleted.
C3_Witness ==
    /\ Succeeded("delete")
    /\ Len(run.loaded) = 3
    /\ run.loaded[2].ID = GivenId
    /\ Len(file.recs) = 2

\* C4: delete and done with a missing or non-numeric identifier, or with an
\* identifier no task has, report an error, exit non-zero and leave the
\* collection in memory and the file as they were.
C4_NotFoundUnchanged ==
    ((Ran("delete") \/ Ran("done")) /\ ~IdExists) =>
        /\ run.exit # 0
        /\ run.out.kind \in ErrorKinds
        /\ run.tasks = run.loaded
        /\ file = run.before

\* done with a number that names none of the tasks of a non-empty store.
C4_Witness ==
    /\ Ran("done")
    /\ IdGiven
    /\ run.loaded # <<>>
    /\ GivenId \notin Ids(run.loaded)
    /\ run.out.kind = "Error: Task not found"

\* C5: done on an existing task succeeds and changes nothing but that
\* task's completion flag, which becomes true; on a task that is already
\* done it leaves the collection, in memory and persisted, as it was.
C5_DoneFrame ==
    (Ran("done") /\ IdExists) =>
        /\ run.exit = 0
        /\ run.out.kind = "Marked task as done"
        /\ file.kind = "json"
        /\ Len(Stored) = Len(run.loaded)
        /\ \A i \in 1..Len(run.loaded) :
              /\ Stored[i].ID = run.loaded[i].ID
              /\ Stored[i].Title = run.loaded[i].Title
              /\ Stored[i].Deadline = run.loaded[i].Deadline
              /\ Stored[i].Done = (run.loaded[i].Done \/ run.loaded[i].ID = GivenId)
        /\ (\A i \in 1..Len(run.loaded) :
                run.loaded[i].ID = GivenId => run.loaded[i].Done)
              => (Stored = run.loaded /\ run.tasks = run.loaded)

\* done on a task that is already done, beside one that is not.
C5_Witness ==
    /\ Succeeded("done")
    /\ \E i, j \in 1..Len(run.loaded) :
          /\ run.loaded[i].ID = GivenId
          /\ run.loaded[i].Done
          /\ ~run.loaded[j].Done
          /\ ~Stored[j].Done

\* C6: what a successful add, delete, done or clear saved loads back as the
\* collection it held in memory.
C6_RoundTrip ==
    (\E c \in {"add", "delete", "done", "clear"} : Succeeded(c))
        => loadTasks(file) = [err |-> FALSE, tasks |-> run.tasks]

\* The last invocation was given no command or one the program does not know.
RanOther ==
    \/ run.args.n = 1
    \/ run.args.n >= 2 /\ run.args.cmd \notin {"add", "list", "delete", "done", "clear"}

UsageOnly == run.out.kind = "" /\ run.out.usage

\* C7 as claimed: for any other or missing command, whatever the state of
\* the file, the usage is printed, the exit status is non-zero and the file
\* is as it was.
C7_UsageAlways ==
    RanOther => (UsageOnly /\ run.exit # 0 /\ file = run.before)

\* C7 as amended: for any other or missing command the exit status is
\* non-zero and the file is as it was; the usage is printed when the file is
\* absent or parses, and the load error instead of it when it does not.
C7_UsageUnlessCorrupt ==
    RanOther =>
        /\ run.exit # 0
        /\ file = run.before
        /\ run.before.kind # "corrupt" => UsageOnly
        /\ run.before.kind = "corrupt"
              => (run.out.kind = "Error loading tasks" /\ ~run.out.usage)

\* An unknown command given while the file does not exist.
C7_Witness ==
    /\ RanOther
    /\ run.args.n = 2
    /\ run.before.kind = "absent"
    /\ UsageOnly

ListedAll ==
    IF run.loaded = <<>>
    THEN run.out.kind = "No tasks found" /\ run.out.lines = <<>>
    ELSE /\ run.out.kind = "Tasks:"
         /\ Len(run.out.lines) = Len(run.loaded)
         /\ \A i \in 1..Len(run.loaded) : run.out.lines[i].id = run.loaded[i].ID

\* C8 as claimed: in every state of the file list exits 0 after printing the
\* tasks or the "no tasks" message, without writing, and clear exits 0 with
\* the persisted collection empty.
C8_NeverFails ==
    /\ Ran("list") => (run.exit = 0 /\ ListedAll /\ file = run.before)
    /\ Ran("clear") => (run.exit = 0 /\ file = saveTasks(<<>>))

\* C8 as amended: that holds when the file is absent or parses; when it
\* does not parse, list and clear exit non-zero and the file is as it was.
C8_FailsOnlyOnCorrupt ==
    /\ (Ran("list") /\ run.before.kind # "corrupt")
          => (run.exit = 0 /\ ListedAll /\ file = run.before)
    /\ (Ran("clear") /\ run.before.kind # "corrupt")
          => (run.exit = 0 /\ file.kind = "json" /\ Stored = <<>>)
    /\ ((Ran("list") \/ Ran("clear")) /\ run.before.kind = "corrupt")
          => (run.exit # 0 /\ file = run.before
              /\ run.out.kind = "Error loading tasks")

\* clear of a store that holds tasks.
C8_Witness ==
    /\ Succeeded("clear")
    /\ Len(run.before.recs) >= 2
    /\ file.recs = <<>>

\* ------------------------------------------------------------------------
\* Invocations one after the other, with the removed identifiers recorded

Tracked(a) ==
    /\ run' = main(file, a)
    /\ file' = run'.file
    /\ retired' = retired \cup (FileIds(file) \ FileIds(file'))
    /\ UNCHANGED <<proc, started, lastSave>>

TrackedAdd ==
    CanAdd(file) /\ Tracked(Args(3, "add", <<"a">>, EmptyString, <<>>))

TrackedDelete == \E a \in IdCmdArgs("delete") : Tracked(a)

TrackedClear == Tracked(Args(2, "clear", <<>>, EmptyString, <<>>))

NextIds == TrackedAdd \/ TrackedDelete \/ TrackedClear

SpecIds == Init /\ [][NextIds]_vars

\* An add that follows a delete of the largest identifier, or a clear of a
\* collection that held tasks.
C10_ReuseStep ==
    (/\ \/ Succeeded("delete") /\ GivenId = Max(Ids(run.loaded))
        \/ Succeeded("clear") /\ run.loaded # <<>>
     /\ run'.args.cmd = "add"
     /\ run'.exit = 0)
        => run'.out.id \in retired'

\* An add that assigned an identifier a removed task had.
C10_NoReuseBelowMax ==
    (Succeeded("add") /\ run.out.id \in retired)
        => \A i \in 1..Len(run.loaded) : run.loaded[i].ID < run.out.id

\* C10: identifiers are reused.  The add that follows a delete of the task
\* with the largest identifier, or a clear of a collection that held tasks,
\* assigns an identifier a removed task had; and an add never assigns a
\* removed identifier while a task with a larger identifier remains.
C10_IdsReused == []C10_NoReuseBelowMax /\ [][C10_ReuseStep]_vars

\* An add reuses a removed identifier while a smaller removed identifier,
\* below that of a task that remains, is left unused.
C10_Witness ==
    /\ Succeeded("add")
    /\ run.out.id \in retired
    /\ \E r \in retired : \E i \in 1..Len(run.loaded) : r < run.loaded[i].ID

\* ------------------------------------------------------------------------
\* Overlapping invocations.  Nothing locks tasks.txt: the steps of one
\* process are its system calls on the file and, between the load and the
\* save, the work on its own copy of the collection.  The files of the
\* model are shorter than the 512 bytes os.ReadFile asks for at least, so
\* its first read returns all the file holds at that moment.

ConcArgs ==
    {Args(3, "add", <<"a">>, EmptyString, <<>>),
     Args(3, "delete", <<>>, EmptyString, <<"1">>),
     Args(3, "delete", <<>>, EmptyString, <<"2">>),
     Args(3, "done", <<>>, EmptyString, <<"1">>),
     Args(2, "clear", <<>>, EmptyString, <<>>),
     Args(2, "list", <<>>, EmptyString, <<>>)}

\* The process as loadTasks returns: the error exit of main, or the
\* collection loaded.
Loaded(a, data) ==
    LET ld == loadTasks(data)
    IN  IF ld.err
        THEN [pc |-> "exited", args |-> a, read |-> data, loaded |-> <<>>,
              tasks |-> <<>>, out |-> Out("Error loading tasks", FALSE, 0, <<>>),
              exit |-> 1]
        ELSE [pc |-> "loaded", args |-> a, read |-> data, loaded |-> ld.tasks,
              tasks |-> ld.tasks, out |-> Out("", FALSE, 0, <<>>), exit |-> 0]

\* The process starts; os.ReadFile opens the file and reads.  A missing
\* file and an empty one end the load here; otherwise the read returned the
\* content and one more read follows.
CRead(p) ==
    /\ proc[p].pc \in {"idle", "exited"}
    /\ started < MaxRuns
    /\ \E a \in ConcArgs :
          proc' = [proc EXCEPT ![p] =
                    IF file.kind = "absent" \/ file.len = 0
                    THEN Loaded(a, file)
                    ELSE [NoProc EXCEPT !.pc = "reading", !.args = a, !.read = file]]
    /\ started' = started + 1
    /\ UNCHANGED <<file, run, retired, lastSave>>

\* The last read of os.ReadFile, at the offset reached: the end of the
\* file, or the bytes a writer has put there since, which follow what was
\* read and make it unparseable.  Then json.Unmarshal.
CReadEOF(p) ==
    /\ proc[p].pc = "reading"
    /\ proc' = [proc EXCEPT ![p] =
                  Loaded(proc[p].args,
                         IF file.len > proc[p].read.len
                         THEN Content("corrupt", <<>>, file.len)
                         ELSE proc[p].read)]
    /\ UNCHANGED <<file, run, retired, started, lastSave>>

\* The argument check and the switch; the process exits unless the command
\* is one that saves.
CDispatch(p) ==
    /\ proc[p].pc = "loaded"
    /\ proc[p].args.cmd = "add" => nextID(proc[p].tasks) <= MaxID
    /\ LET r == dispatch(proc[p].tasks, proc[p].args)
       IN  proc' = [proc EXCEPT ![p].pc = IF r.save THEN "saving" ELSE "exited",
                                ![p].tasks = r.tasks,
                                ![p].out = r.out,
                                ![p].exit = r.exit]
    /\ UNCHANGED <<file, run, retired, started, lastSave>>

\* saveTasks: os.WriteFile opens tasks.txt, which truncates it.
COpen(p) ==
    /\ proc[p].pc = "saving"
    /\ file' = openTrunc
    /\ proc' = [proc EXCEPT ![p].pc = "writing"]
    /\ UNCHANGED <<run, retired, started, lastSave>>

\* saveTasks: os.WriteFile writes the serialized collection at offset 0 and
\* closes the file; the process exits 0.
CWrite(p) ==
    /\ proc[p].pc = "writing"
    /\ file' = writeAt0(file, marshalled(proc[p].tasks))
    /\ lastSave' = [by |-> p, tasks |-> proc[p].tasks]
    /\ proc' = [proc EXCEPT ![p].pc = "exited"]
    /\ UNCHANGED <<run, retired, started>>

Read == \E p \in Procs : CRead(p)

ReadEOF == \E p \in Procs : CReadEOF(p)

Dispatch == \E p \in Procs : CDispatch(p)

Open == \E p \in Procs : COpen(p)

Write == \E p \in Procs : CWrite(p)

NextConc == Read \/ ReadEOF \/ Dispatch \/ Open \/ Write

SpecConc == Init /\ [][NextConc]_vars

\* No process is inside saveTasks.
NoSaveUnderWay == \A p \in Procs : proc[p].pc \notin {"saving", "writing"}

\* C9: with overlapping invocations the last writer wins.  Once the
\* invocations have saved, the file holds exactly the collection of the one
\* that wrote last, and so a collection with unique identifiers.
C9_LastWriterWins ==
    (lastSave.by # 0 /\ NoSaveUnderWay) =>
        /\ file.kind = "json"
        /\ Stored = lastSave.tasks
        /\ \A i, j \in 1..Len(file.recs) : i # j => file.recs[i].id # file.recs[j].id

====
